---- MODULE Spec2Model ----
(***************************************************************************)
(* A model of the AI query interface (src/app.py): the URL extractor, the  *)
(* document archiver, the /query request handler and the /document        *)
(* retrieval handler, with the inference service, the HTTP client, the     *)
(* HTML-to-PDF renderer and the object store as environment choices.       *)
(*                                                                         *)
(* Python strings and byte strings are sequences: a str is a sequence of   *)
(* one-character strings, a bytes value a sequence of small integers.      *)
(***************************************************************************)
EXTENDS Naturals, Sequences, FiniteSets, TLC

VARIABLES
    text,          \* extractor harness: the input text
    found,         \* extractor harness: what extract_urls returned
    epc,           \* extractor harness: "input" before the call, "output" after
    pc,            \* position of the /query handler: "idle" or "archiving"
    req,           \* the JSON body of the /query request being handled, or just handled
    response_text, \* the text the inference call returned
    urls,          \* the list extract_urls returned to the handler
    i,             \* index of the next URL of the for loop
    documents,     \* result["documents"]
    query_id,      \* the query id of the request, <<>> when none was made
    resp,          \* the response of the /query request just handled: [status, body]
    log,           \* external calls of that /query request, in order
    bucket_exists, \* the object store: does STORAGE_BUCKET exist
    blobs,         \* the object store: the blobs of the bucket, one per path
    uploads,       \* history: every blob written, oldest first
    get_resp,      \* the response of the /document request just handled
    nfetch         \* number of download_and_store calls made since process start

vars == <<text, found, epc, pc, req, response_text, urls, i, documents, query_id,
          resp, log, bucket_exists, blobs, uploads, get_resp, nfetch>>

extractVars == <<text, found, epc>>
handlerVars == <<pc, req, response_text, urls, i, documents, query_id, resp, log,
                 bucket_exists, blobs, uploads, get_resp, nfetch>>

(***************************************************************************)
(* Bounds of the model.                                                    *)
(***************************************************************************)
MaxPieces == 5
MaxFetches == 2

(***************************************************************************)
(* Python str methods, on sequences of characters.                         *)
(***************************************************************************)
Min(S) == CHOOSE x \in S : \A y \in S : x <= y
Max(S) == CHOOSE x \in S : \A y \in S : x >= y

\* what str.strip() with no argument removes, and what \s matches
Whitespace == {" ", "\t", "\n", "\r"}

\* s.startswith(p, i-1): p occurs in s at the 1-based position i
StartsWithAt(s, p, k) ==
    /\ k >= 1
    /\ k + Len(p) - 1 <= Len(s)
    /\ \A n \in 1..Len(p) : s[k + n - 1] = p[n]

\* sub in s
Contains(s, sub) == \E k \in 1..(Len(s) + 1) : StartsWithAt(s, sub, k)

\* s.find(c, from-1) for a single character, 0 when there is none
FindChar(s, chars, from) ==
    LET hits == {k \in from..Len(s) : s[k] \in chars}
    IN  IF hits = {} THEN 0 ELSE Min(hits)

\* s.rfind(c) for a single character, 0 when there is none
RFindChar(s, chars) ==
    LET hits == {k \in 1..Len(s) : s[k] \in chars}
    IN  IF hits = {} THEN 0 ELSE Max(hits)

\* s.rstrip(chars)
RStrip(s, chars) ==
    LET keep == RFindChar(s, {s[k] : k \in 1..Len(s)} \ chars)
    IN  SubSeq(s, 1, keep)

\* s.lstrip(chars)
LStrip(s, chars) ==
    LET first == FindChar(s, {s[k] : k \in 1..Len(s)} \ chars, 1)
    IN  IF first = 0 THEN <<>> ELSE SubSeq(s, first, Len(s))

\* s.strip(chars)
Strip(s, chars) == LStrip(RStrip(s, chars), chars)

\* s.replace(a, b) for single characters
ReplaceChar(s, a, b) == [k \in 1..Len(s) |-> IF s[k] = a THEN b ELSE s[k]]

(***************************************************************************)
(* extract_urls                                                            *)
(***************************************************************************)
HTTP == <<"h", "t", "t", "p", ":", "/", "/">>
HTTPS == <<"h", "t", "t", "p", "s", ":", "/", "/">>

\* the characters the class [^\s<>\[\]()"\'] of url_pattern excludes
UrlStop == Whitespace \cup {"<", ">", "[", "]", "(", ")", "\"", "'"}

\* the characters url.rstrip('.,;:!?)') removes
TrailingPunct == {".", ",", ";", ":", "!", "?", ")"}

\* the length a cleaned URL must exceed to be kept: len(url) > 10
MinUrlLen == 10

\* length of the match of https?:// at position k, 0 when it does not match
SchemeLenAt(s, k) ==
    IF StartsWithAt(s, HTTPS, k) THEN Len(HTTPS)
    ELSE IF StartsWithAt(s, HTTP, k) THEN Len(HTTP)
    ELSE 0

\* last position of the match of url_pattern that starts at k, 0 when there is none:
\* the scheme, then the longest non-empty run of characters outside UrlStop
MatchEndAt(s, k) ==
    LET n == SchemeLenAt(s, k)
        stop == FindChar(s, UrlStop, k + n)
        last == IF stop = 0 THEN Len(s) ELSE stop - 1
    IN  IF n = 0 \/ last < k + n THEN 0 ELSE last

\* re.findall(url_pattern, text): the non-overlapping matches, leftmost first
RECURSIVE FindAllFrom(_, _)
FindAllFrom(s, k) ==
    IF k > Len(s) THEN <<>>
    ELSE LET e == MatchEndAt(s, k)
         IN  IF e = 0 THEN FindAllFrom(s, k + 1)
             ELSE <<SubSeq(s, k, e)>> \o FindAllFrom(s, e + 1)

FindAll(s) == FindAllFrom(s, 1)

\* a threshold one too high: if url and len(url) > 11
KeepUrlOverEleven(url) == url # <<>> /\ Len(url) > MinUrlLen + 1

\* the test that keeps a stripped match: if url and len(url) > 10
KeepUrl(url) == url # <<>> /\ Len(url) > MinUrlLen

\* the loop of extract_urls: cleaned_urls, in match order, duplicates included
CleanedUrls(s) ==
    LET stripped == [k \in 1..Len(FindAll(s)) |-> RStrip(FindAll(s)[k], TrailingPunct)]
    IN  SelectSeq(stripped, KeepUrl)

\* without set(): cleaned_urls returned as it is
ListKeepingDuplicates(xs) == {xs}

\* the lists list(set(xs)) can be: the distinct elements, in any order
ListOfSet(xs) ==
    LET S == {xs[k] : k \in 1..Len(xs)}
    IN  {l \in [1..Cardinality(S) -> S] : \A a, b \in 1..Cardinality(S) : a # b => l[a] # l[b]}

\* extract_urls(text): the set of lists it can return
extract_urls(s) == ListOfSet(CleanedUrls(s))

(***************************************************************************)
(* Configuration (src/app.py lines 22-26).                                 *)
(***************************************************************************)
\* STORAGE_BUCKET with no environment override
STORAGE_BUCKET == <<"y", "o", "u", "r", "-", "p", "r", "o", "j", "e", "c", "t", "-", "i", "d",
                    "-", "a", "i", "-", "q", "u", "e", "r", "y", "-", "d", "o", "c", "s">>

\* PROMPT_SUFFIX, read from the environment: a configured value
PROMPT_SUFFIX == <<"V", "e", "r", "i", "f", "y", ".">>

(***************************************************************************)
(* The URLs of the model, and hashlib.md5(url.encode()).hexdigest()[:8]    *)
(* of each (the digests are the real ones).                                *)
(***************************************************************************)
UrlA == <<"h", "t", "t", "p", ":", "/", "/", "a", ".", "i", "o", "/", "r", "?", "h", "j", "j">>
UrlB == <<"h", "t", "t", "p", ":", "/", "/", "a", ".", "i", "o", "/", "r", "?", "b", "4", "3", "j">>
UrlC == <<"h", "t", "t", "p", "s", ":", "/", "/", "c", ".", "o", "r", "g", "/">>
UrlD == <<"h", "t", "t", "p", "s", ":", "/", "/", "b", ".", "i", "o", "/", "d", "/",
          "x", "~", "1", ".", "h", "t", "m", "l">>

url_hash(url) ==
    CASE url = UrlA -> <<"f", "d", "d", "6", "8", "e", "8", "6">>
      [] url = UrlB -> <<"f", "d", "d", "6", "8", "e", "8", "6">>
      [] url = UrlC -> <<"5", "c", "b", "4", "c", "7", "0", "d">>
      [] url = UrlD -> <<"c", "2", "5", "2", "5", "5", "2", "3">>

(***************************************************************************)
(* urlparse(url).netloc and .path, and the base filename and title         *)
(* download_and_store derives from them.                                   *)
(***************************************************************************)
Lower == <<"a", "b", "c", "d", "e", "f", "g", "h", "i", "j", "k", "l", "m",
           "n", "o", "p", "q", "r", "s", "t", "u", "v", "w", "x", "y", "z">>
Upper == <<"A", "B", "C", "D", "E", "F", "G", "H", "I", "J", "K", "L", "M",
           "N", "O", "P", "Q", "R", "S", "T", "U", "V", "W", "X", "Y", "Z">>
Digits == {"0", "1", "2", "3", "4", "5", "6", "7", "8", "9"}
Letters == {Lower[k] : k \in 1..26} \cup {Upper[k] : k \in 1..26}

\* what \w matches
WordChars == Letters \cup Digits \cup {"_"}

\* the part of the URL after scheme:// up to the first of / ? #
Netloc(url) ==
    LET start == SchemeLenAt(url, 1) + 1
        stop == FindChar(url, {"/", "?", "#"}, start)
    IN  SubSeq(url, start, IF stop = 0 THEN Len(url) ELSE stop - 1)

\* the part of the URL from the netloc's end up to the first of ? #
RawPath(url) ==
    LET start == SchemeLenAt(url, 1) + Len(Netloc(url)) + 1
        stop == FindChar(url, {"?", "#"}, start)
    IN  SubSeq(url, start, IF stop = 0 THEN Len(url) ELSE stop - 1)

\* urlparse(url).path: the raw path without the ;params of its last segment
UrlPath(url) ==
    LET p == RawPath(url)
        slash == RFindChar(p, {"/"})
        semi == FindChar(p, {";"}, slash + 1)
    IN  IF semi = 0 THEN p ELSE SubSeq(p, 1, semi - 1)

\* re.sub(r'[^\w\-.]', '_', s)
Sanitize(s) == [k \in 1..Len(s) |-> IF s[k] \in WordChars \cup {"-", "."} THEN s[k] ELSE "_"]

\* s.rsplit('.', 1)[0] when '.' is in s, s otherwise
DropExtension(s) ==
    LET dot == RFindChar(s, {"."})
    IN  IF dot = 0 THEN s ELSE SubSeq(s, 1, dot - 1)

\* base_filename (src/app.py lines 86-96)
base_filename(url) ==
    LET path == Strip(UrlPath(url), {"/"})
        last == SubSeq(path, RFindChar(path, {"/"}) + 1, Len(path))
    IN  DropExtension(IF path # <<>> THEN Sanitize(last)
                      ELSE ReplaceChar(Netloc(url), ".", "_"))

ToUpper(c) == IF \E k \in 1..26 : Lower[k] = c THEN Upper[CHOOSE k \in 1..26 : Lower[k] = c] ELSE c
ToLower(c) == IF \E k \in 1..26 : Upper[k] = c THEN Lower[CHOOSE k \in 1..26 : Upper[k] = c] ELSE c

\* s.title(): a letter is upper-cased after a non-letter, lower-cased after a letter
Title(s) ==
    [k \in 1..Len(s) |->
        IF k > 1 /\ s[k - 1] \in Letters THEN ToLower(s[k]) ELSE ToUpper(s[k])]

\* result["title"]
title(url) == Title(ReplaceChar(base_filename(url), "_", " "))

(***************************************************************************)
(* The HTTP client: what requests.get(url, ..., allow_redirects=True) can  *)
(* end in. A response is the final one, after redirects were followed.     *)
(***************************************************************************)
APPLICATION_PDF == <<"a", "p", "p", "l", "i", "c", "a", "t", "i", "o", "n", "/", "p", "d", "f">>
TEXT_HTML == <<"t", "e", "x", "t", "/", "h", "t", "m", "l">>
OCTET_STREAM == <<"a", "p", "p", "l", "i", "c", "a", "t", "i", "o", "n", "/",
                  "o", "c", "t", "e", "t", "-", "s", "t", "r", "e", "a", "m">>

\* values of the Content-Type header the model's servers send
TEXT_HTML_CHARSET == <<"t", "e", "x", "t", "/", "h", "t", "m", "l", ";", " ",
                       "c", "h", "a", "r", "s", "e", "t", "=", "u", "t", "f", "-", "8">>
TEXT_PLAIN == <<"t", "e", "x", "t", "/", "p", "l", "a", "i", "n">>
APPLICATION_XHTML == <<"a", "p", "p", "l", "i", "c", "a", "t", "i", "o", "n", "/",
                       "x", "h", "t", "m", "l", "+", "x", "m", "l">>
APPLICATION_JSON == <<"a", "p", "p", "l", "i", "c", "a", "t", "i", "o", "n", "/",
                      "j", "s", "o", "n">>

\* response.headers: with a Content-Type header, or without one
NoContentType == [has |-> FALSE]
ContentType(v) == [has |-> TRUE, value |-> v]

HttpResponse(sc, h, b) ==
    [kind |-> "response", status_code |-> sc, headers |-> h, content |-> b]

\* the final responses the model's servers give, by URL: 200 OK with each content
\* type and with none, 300 Multiple Choices (not a redirect requests follows), 404, 500
Responses(url) ==
    CASE url = UrlA ->
           { HttpResponse(200, ContentType(APPLICATION_PDF), <<1>>),
             HttpResponse(200, NoContentType, <<9>>),
             HttpResponse(404, ContentType(TEXT_HTML_CHARSET), <<11>>) }
      [] url = UrlB ->
           { HttpResponse(200, ContentType(APPLICATION_PDF), <<2, 3>>),
             HttpResponse(200, ContentType(APPLICATION_JSON), <<7>>),
             HttpResponse(300, ContentType(APPLICATION_JSON), <<10>>) }
      [] url = UrlC ->
           { HttpResponse(200, ContentType(TEXT_HTML_CHARSET), <<4>>),
             HttpResponse(500, NoContentType, <<>>) }
      [] url = UrlD ->
           { HttpResponse(200, ContentType(APPLICATION_XHTML), <<5, 6>>),
             HttpResponse(200, ContentType(TEXT_PLAIN), <<8>>),
             HttpResponse(200, ContentType(<<"b", "i", "n", "a", "r", "y">>), <<12>>) }

\* requests.get(url, ...) raises (a network failure), or returns a response
GetOutcomes(url) == {[kind |-> "raise", error |-> "Connection refused"]} \cup Responses(url)

\* without the raise_for_status() call: no status raises
raise_for_status_never(response) == ""

\* response.raise_for_status(): the message of the HTTPError it raises, "" when it
\* returns (requests raises for 400 <= status_code < 600)
raise_for_status(response) ==
    IF response.status_code >= 400 /\ response.status_code < 500 THEN "Client Error"
    ELSE IF response.status_code >= 500 /\ response.status_code < 600 THEN "Server Error"
    ELSE ""

\* response.headers.get('Content-Type', '').split(';')[0].strip()
content_type_of(response) ==
    LET value == IF response.headers.has THEN response.headers.value ELSE <<>>
        semi == FindChar(value, {";"}, 1)
    IN  Strip(IF semi = 0 THEN value ELSE SubSeq(value, 1, semi - 1), Whitespace)

(***************************************************************************)
(* The renderer (weasyprint) and convert_to_pdf.                           *)
(***************************************************************************)
\* the bytes the model's renderer produces: "%PDF"
PDF_BYTES == <<37, 80, 68, 70>>

\* HTML(...).write_pdf() returns PDF bytes, or raises
RenderOutcomes == {[kind |-> "raise"], [kind |-> "pdf", bytes |-> PDF_BYTES]}

\* convert_to_pdf(html_content, url): the PDF bytes, or None when rendering raised.
\* The <base> tag it adds changes only what the renderer is given.
convert_to_pdf(render) ==
    IF render.kind = "raise" THEN [none |-> TRUE] ELSE [none |-> FALSE, bytes |-> render.bytes]

\* if pdf_bytes:
Truthy(pdf_bytes) == ~pdf_bytes.none /\ pdf_bytes.bytes # <<>>

(***************************************************************************)
(* download_and_store                                                      *)
(***************************************************************************)
\* blob.upload_from_string raises (the message), or stores the blob
UploadOutcomes == {[kind |-> "ok"], [kind |-> "raise", error |-> "503 Service Unavailable"]}

\* everything the environment decides during one download_and_store(url, ...) call
Envs(url) == {[get |-> g, render |-> r, upload |-> u] :
                g \in GetOutcomes(url), r \in RenderOutcomes, u \in UploadOutcomes}

\* a test of the MIME type instead of a substring test: content_type.startswith('text/')
IsTextType(content_type) == StartsWithAt(content_type, <<"t", "e", "x", "t", "/">>, 1)

\* elif 'html' in content_type or 'text' in content_type
IsHtmlOrText(content_type) ==
    \/ Contains(content_type, <<"h", "t", "m", "l">>)
    \/ Contains(content_type, <<"t", "e", "x", "t">>)

\* ext = content_type.split('/')[-1] if '/' in content_type else 'bin'
OtherExt(content_type) ==
    IF Contains(content_type, <<"/">>)
    THEN SubSeq(content_type, RFindChar(content_type, {"/"}) + 1, Len(content_type))
    ELSE <<"b", "i", "n">>

\* what the branch on content_type (lines 109-152) uploads:
\* the extension, the bytes, the content type, and whether the note is set
StoragePlan(content_type, content, render) ==
    IF content_type = APPLICATION_PDF
    THEN [ext |-> <<"p", "d", "f">>, bytes |-> content,
          content_type |-> APPLICATION_PDF, note |-> FALSE]
    ELSE IF IsHtmlOrText(content_type)
    THEN IF Truthy(convert_to_pdf(render))
         THEN [ext |-> <<"p", "d", "f">>, bytes |-> convert_to_pdf(render).bytes,
               content_type |-> APPLICATION_PDF, note |-> FALSE]
         ELSE [ext |-> <<"h", "t", "m", "l">>, bytes |-> content,
               content_type |-> TEXT_HTML, note |-> TRUE]
    ELSE [ext |-> OtherExt(content_type), bytes |-> content,
          content_type |-> content_type, note |-> FALSE]

\* blob_path = f"{query_id}/{url_hash}_{base_filename}.{ext}"
blob_path(qid, url, ext) ==
    qid \o <<"/">> \o url_hash(url) \o <<"_">> \o base_filename(url) \o <<".">> \o ext

\* the dict of the except clauses (lines 156-167)
error_result(url, e) == [url |-> url, status |-> "error", error |-> e]

\* the dict of a stored document (lines 103-107 and the keys its branch adds)
success_result(url, bucket_name, qid, plan) ==
    LET path == blob_path(qid, url, plan.ext)
        r == [url |-> url, title |-> title(url), status |-> "success",
              pdf_path |-> path,
              gcs_uri |-> <<"g", "s", ":", "/", "/">> \o bucket_name \o <<"/">> \o path,
              size_bytes |-> Len(plan.bytes),
              filename |-> base_filename(url) \o <<".">> \o plan.ext]
    IN  IF plan.note
        THEN r @@ [note |-> "PDF conversion failed, stored as HTML"]
        ELSE r

\* blob.upload_from_string: the message of what it raises, "" when the blob is stored.
\* A bucket that does not exist cannot take a blob.
upload_error(bucket_ok, upload) ==
    IF ~bucket_ok THEN "404 The specified bucket does not exist"
    ELSE IF upload.kind = "raise" THEN upload.error
    ELSE ""

\* what download_and_store hands back to query:
\*   kind    "return" (it returns result), or "raise" (an exception escapes it, error)
\*   calls   the external calls made, in order: the get with its outcome, the upload
\*   stored  the blob written (with the query and URL it was written for), as a
\*           sequence of at most one element
Returned(result, calls, stored) ==
    [kind |-> "return", result |-> result, calls |-> calls, stored |-> stored]

\* except requests.RequestException as e (lines 156-161): requests.get or
\* raise_for_status raised e
except_request_exception(url, e, calls) == Returned(error_result(url, e), calls, <<>>)

\* without the second except clause: the exception escapes download_and_store
except_exception_missing(url, e, calls) ==
    [kind |-> "raise", error |-> e, calls |-> calls, stored |-> <<>>]

\* except Exception as e (lines 162-167): anything else raised e
except_exception(url, e, calls) == Returned(error_result(url, e), calls, <<>>)

\* download_and_store(url, bucket_name, query_id) under the environment's choices env
download_and_store(url, bucket_name, qid, bucket_ok, env) ==
    LET get == env.get
        get_call == [op |-> "get", url |-> url, outcome |-> get]
    IN  IF get.kind = "raise"
        THEN except_request_exception(url, get.error, <<get_call>>)
        ELSE IF raise_for_status(get) # ""
        THEN except_request_exception(url, raise_for_status(get), <<get_call>>)
        ELSE
          LET content_type == content_type_of(get)
              plan == StoragePlan(content_type, get.content, env.render)
              path == blob_path(qid, url, plan.ext)
              failed == upload_error(bucket_ok, env.upload)
              put_call == [op |-> "upload", url |-> url, ok |-> failed = ""]
          IN  IF failed # ""
              THEN except_exception(url, failed, <<get_call, put_call>>)
              ELSE Returned(success_result(url, bucket_name, qid, plan),
                            <<get_call, put_call>>,
                            <<[path |-> path, content |-> plan.bytes,
                               content_type |-> plan.content_type,
                               query_id |-> qid, url |-> url]>>)

(***************************************************************************)
(* The extractor on its own: every text made of at most MaxPieces pieces.  *)
(***************************************************************************)
Pieces == {HTTP, HTTPS, <<"a", ".", "b">>, <<"a", "b", "c", "d">>,
           <<".">>, <<",">>, <<" ">>, <<")">>}

RECURSIVE Concat(_)
Concat(ps) == IF ps = <<>> THEN <<>> ELSE Head(ps) \o Concat(Tail(ps))

Texts == {Concat(ps) : ps \in UNION {[1..n -> Pieces] : n \in 0..MaxPieces}}

HandlerIdle ==
    /\ pc = "idle"
    /\ req = [none |-> TRUE]
    /\ response_text = <<>>
    /\ urls = <<>>
    /\ i = 1
    /\ documents = <<>>
    /\ query_id = <<>>
    /\ resp = [status |-> 0]
    /\ log = <<>>
    /\ bucket_exists = FALSE
    /\ blobs = {}
    /\ uploads = <<>>
    /\ get_resp = [status |-> 0]
    /\ nfetch = 0

InitExtract ==
    /\ text \in Texts
    /\ found = <<>>
    /\ epc = "input"
    /\ HandlerIdle

\* one call of extract_urls(text)
ExtractUrls ==
    /\ epc = "input"
    /\ found' \in extract_urls(text)
    /\ epc' = "output"
    /\ UNCHANGED <<text, handlerVars>>

NextExtract == ExtractUrls

SpecExtract == InitExtract /\ [][NextExtract]_vars

(***************************************************************************)
(* The object store.                                                       *)
(***************************************************************************)
\* the stored blob: what upload_from_string keeps of a write
Blob(w) == [path |-> w.path, content |-> w.content, content_type |-> w.content_type]

\* the bucket after the writes ws: a write replaces the blob of its path
RECURSIVE Store(_, _)
Store(bs, ws) ==
    IF ws = <<>> THEN bs
    ELSE Store({b \in bs : b.path # Head(ws).path} \cup {Blob(Head(ws))}, Tail(ws))

\* ensure_bucket_exists(bucket_name): whether the bucket exists afterwards. A failure
\* of bucket.exists() or create_bucket is printed and the result is ignored by query.
ensure_bucket_exists(exists, create) == exists \/ create = "ok"

(***************************************************************************)
(* The /query handler.                                                     *)
(***************************************************************************)
\* JSON values of the request body; "absent" is a key the body does not hold
Absent == [t |-> "absent"]
JsonNull == [t |-> "null"]
JsonStr(s) == [t |-> "str", v |-> s]
JsonBool(b) == [t |-> "bool", v |-> b]

\* data.get(key, default)
DataGet(data, key, default) == IF data[key] = Absent THEN default ELSE data[key]

\* the request bodies of the model: {}, {"prompt": null}, {"prompt": ""},
\* {"prompt": " \t", "download_sources": true}, {"prompt": " q\n"},
\* {"prompt": " q\n", "download_sources": false}
RequestBodies ==
    { [prompt |-> Absent, download_sources |-> Absent],
      [prompt |-> JsonNull, download_sources |-> Absent],
      [prompt |-> JsonStr(<<>>), download_sources |-> JsonBool(FALSE)],
      [prompt |-> JsonStr(<<" ", "\t">>), download_sources |-> JsonBool(TRUE)],
      [prompt |-> JsonStr(<<" ", "q", "\n">>), download_sources |-> Absent],
      [prompt |-> JsonStr(<<" ", "q", "\n">>), download_sources |-> JsonBool(FALSE)] }

\* without strip(): user_prompt = data.get("prompt", "")
user_prompt_unstripped(data) ==
    LET p == DataGet(data, "prompt", JsonStr(<<>>))
    IN  IF p.t = "str" THEN [kind |-> "ok", v |-> p.v]
        ELSE [kind |-> "raise", error |-> "object has no attribute 'strip'"]

\* user_prompt = data.get("prompt", "").strip(): the stripped prompt, or the
\* AttributeError of calling strip on a value that is no string
user_prompt(data) ==
    LET p == DataGet(data, "prompt", JsonStr(<<>>))
    IN  IF p.t = "str" THEN [kind |-> "ok", v |-> Strip(p.v, Whitespace)]
        ELSE [kind |-> "raise", error |-> "object has no attribute 'strip'"]

\* the flag never read: archiving always on
download_sources_ignored(data) == TRUE

\* download_sources = data.get("download_sources", True), as the truth value
\* `if download_sources:` tests
download_sources(data) ==
    LET d == DataGet(data, "download_sources", JsonBool(TRUE))
    IN  d.t = "bool" /\ d.v

\* full_prompt = f"{user_prompt}\n\n{PROMPT_SUFFIX}"
full_prompt(prompt) == prompt \o <<"\n", "\n">> \o PROMPT_SUFFIX

\* the texts the model's inference service generates
GeneratedTexts ==
    { <<"N", "o", "n", "e", ".">>,
      <<"S", "e", "e", " ">> \o UrlA \o <<".">>,
      UrlA \o <<",", " ">> \o UrlB,
      <<"(">> \o UrlC \o <<")", " ">> \o UrlD \o <<"!">> }

\* model.generate_content(full_prompt) and response.text: the text, or an exception
GenerateOutcomes ==
    {[kind |-> "raise", error |-> "503 The model is overloaded"]}
    \cup {[kind |-> "text", text |-> t] : t \in GeneratedTexts}

\* datetime.now().strftime("%Y%m%d_%H%M%S"): the seconds the model's requests arrive in
Timestamps == { <<"2", "0", "2", "4", "0", "1", "0", "1", "_", "1", "2", "0", "0", "0", "0">> }

\* uuid.uuid4().hex[:8]
RandomHex == { <<"0", "a", "1", "b", "2", "c", "3", "d">>,
               <<"4", "e", "5", "f", "6", "a", "7", "b">> }

\* query_id = datetime.now().strftime("%Y%m%d_%H%M%S") + "_" + uuid.uuid4().hex[:8]
make_query_id(now, hex) == now \o <<"_">> \o hex

\* jsonify({"error": ...}), status
ErrorResponse(status, message) == [status |-> status, body |-> [error |-> message]]

\* the result dict of query (lines 206-210), before archiving adds to it
result_dict(txt, prompt) ==
    [response |-> txt, full_prompt |-> full_prompt(prompt), documents |-> <<>>]

\* the handler ends without archiving, answering r
Answer(r, calls) ==
    /\ pc' = "idle"
    /\ resp' = r
    /\ log' = calls
    /\ response_text' = <<>>
    /\ urls' = <<>>
    /\ documents' = <<>>
    /\ query_id' = <<>>
    /\ UNCHANGED <<bucket_exists, blobs, uploads>>

\* POST /query, from the request to the start of the for loop (lines 191-219)
QueryBegin ==
    /\ pc = "idle"
    /\ i' = 1
    /\ get_resp' = [status |-> 0]
    /\ \E data \in RequestBodies :
        /\ req' = data
        /\ LET prompt == user_prompt(data)
               called == <<[op |-> "generate_content"]>>
           IN  IF prompt.kind = "raise"
               THEN Answer(ErrorResponse(500, prompt.error), <<>>)
               ELSE IF prompt.v = <<>>
               THEN Answer(ErrorResponse(400, "Please enter a prompt"), <<>>)
               ELSE \E gen \in GenerateOutcomes :
                    IF gen.kind = "raise"
                    THEN Answer(ErrorResponse(500, gen.error), called)
                    ELSE \E us \in (IF download_sources(data)
                                    THEN extract_urls(gen.text) ELSE {<<>>}) :
                         IF us = <<>>
                         THEN Answer([status |-> 200,
                                      body |-> result_dict(gen.text, prompt.v)], called)
                         ELSE \E now \in Timestamps, hex \in RandomHex,
                                 create \in {"ok", "raise"} :
                              /\ nfetch + Len(us) <= MaxFetches
                              /\ pc' = "archiving"
                              /\ response_text' = gen.text
                              /\ urls' = us
                              /\ documents' = <<>>
                              /\ query_id' = make_query_id(now, hex)
                              /\ bucket_exists' = ensure_bucket_exists(bucket_exists, create)
                              /\ log' = called
                              /\ resp' = [status |-> 0]
                              /\ UNCHANGED <<blobs, uploads>>
    /\ nfetch' = nfetch
    /\ UNCHANGED extractVars

\* one iteration of `for url in urls` (lines 219-221): download_and_store, then append.
\* An exception escaping download_and_store is caught by query (lines 228-229).
ArchiveUrl ==
    /\ pc = "archiving"
    /\ i <= Len(urls)
    /\ \E env \in Envs(urls[i]) :
        \E r \in {download_and_store(urls[i], STORAGE_BUCKET, query_id, bucket_exists, env)} :
            /\ log' = log \o r.calls
            /\ blobs' = Store(blobs, r.stored)
            /\ uploads' = uploads \o r.stored
            /\ IF r.kind = "return"
               THEN /\ documents' = Append(documents, r.result)
                    /\ i' = i + 1
                    /\ UNCHANGED <<pc, resp>>
               ELSE /\ pc' = "idle"
                    /\ resp' = ErrorResponse(500, r.error)
                    /\ UNCHANGED <<documents, i>>
    /\ nfetch' = nfetch + 1
    /\ UNCHANGED <<req, response_text, urls, query_id, bucket_exists, get_resp>>
    /\ UNCHANGED extractVars

\* a return inside the loop body: the loop ends after its first iteration
LoopDoneAfterFirst == i > 1

\* the for loop has handled every URL
LoopDone == i > Len(urls)

\* the end of query (lines 223-226): the response is returned
QueryReturn ==
    /\ pc = "archiving"
    /\ LoopDone
    /\ pc' = "idle"
    /\ resp' = [status |-> 200,
                body |-> [response |-> response_text,
                          full_prompt |-> full_prompt(user_prompt(req).v),
                          documents |-> documents,
                          query_id |-> query_id,
                          bucket |-> STORAGE_BUCKET]]
    /\ UNCHANGED <<req, response_text, urls, i, documents, query_id, log, bucket_exists,
                   blobs, uploads, get_resp, nfetch>>
    /\ UNCHANGED extractVars

(***************************************************************************)
(* GET /document/<path>                                                    *)
(***************************************************************************)
\* the blob's metadata never loaded: blob.content_type is None
serve_mimetype_unloaded(blob) == OCTET_STREAM

\* content_type = blob.content_type or 'application/octet-stream'
serve_mimetype(blob) ==
    IF blob.content_type # <<>> THEN blob.content_type ELSE OCTET_STREAM

\* get_document(blob_path) on the bucket bs; store is "ok", or "raise" when the
\* storage client raises
get_document(path, bs, store) ==
    IF store = "raise"
    THEN [status |-> 500, error |-> "503 Service Unavailable"]
    ELSE IF ~\E b \in bs : b.path = path
    THEN [path |-> path, status |-> 404]
    ELSE LET blob == CHOOSE b \in bs : b.path = path
         IN  [path |-> path, status |-> 200, content |-> blob.content,
              mimetype |-> serve_mimetype(blob),
              filename |-> SubSeq(path, RFindChar(path, {"/"}) + 1, Len(path))]

\* a path no upload of the model writes
MissingPath == <<"n", "o", "n", "e", "/", "x", ".", "p", "d", "f">>

GetDocument ==
    /\ pc = "idle"
    /\ \E path \in {b.path : b \in blobs} \cup {MissingPath}, store \in {"ok", "raise"} :
        get_resp' = get_document(path, blobs, store)
    /\ req' = [none |-> TRUE]
    /\ resp' = [status |-> 0]
    /\ response_text' = <<>>
    /\ urls' = <<>>
    /\ i' = 1
    /\ documents' = <<>>
    /\ query_id' = <<>>
    /\ log' = <<>>
    /\ UNCHANGED <<pc, bucket_exists, blobs, uploads, nfetch>>
    /\ UNCHANGED extractVars

Init ==
    /\ text = <<>>
    /\ found = <<>>
    /\ epc = "input"
    /\ HandlerIdle

Next == QueryBegin \/ ArchiveUrl \/ QueryReturn \/ GetDocument

Spec == Init /\ [][Next]_vars

(***************************************************************************)
(* Properties.                                                             *)
(***************************************************************************)
Range(sq) == {sq[k] : k \in 1..Len(sq)}

IsGet(call) == call.op = "get"
IsUpload(call) == call.op = "upload"

\* the requests.get calls of the request, in order, and the URLs they fetched
Gets == SelectSeq(log, IsGet)
FetchedUrls == [k \in 1..Len(Gets) |-> Gets[k].url]

\* the /query request ran the for loop and has ended
ArchivingEnded == pc = "idle" /\ query_id # <<>>

\* the fetch of the k-th URL raised, or ended in an HTTP error status (400-599)
FetchFailed(k) ==
    \/ Gets[k].outcome.kind = "raise"
    \/ (Gets[k].outcome.status_code >= 400 /\ Gets[k].outcome.status_code <= 599)

\* the upload made for url failed
UploadFailed(url) == \E c \in Range(log) : IsUpload(c) /\ c.url = url /\ ~c.ok

\* an upload was attempted for url
UploadTried(url) == \E c \in Range(log) : IsUpload(c) /\ c.url = url

\* the blob now stored at path
BlobAt(path) == CHOOSE b \in blobs : b.path = path

EndsWith(s, suffix) == StartsWithAt(s, suffix, Len(s) - Len(suffix) + 1)

\* C1: when a /query request with archiving ends, it answers 200 with one record per
\* extracted URL, in order; a URL whose fetch or upload failed has status "error" and
\* a non-empty error; every other URL has its own success record, under the request's
\* query id, whatever happened to the URLs around it.
C1_FailureIsolated ==
    ArchivingEnded =>
        /\ resp.status = 200
        /\ resp.body.documents = documents
        /\ Len(documents) = Len(urls)
        /\ Len(Gets) = Len(urls)
        /\ \A k \in 1..Len(urls) :
            /\ documents[k].url = urls[k]
            /\ Gets[k].url = urls[k]
            /\ IF FetchFailed(k) \/ UploadFailed(urls[k])
               THEN /\ documents[k].status = "error"
                    /\ documents[k].error # ""
               ELSE /\ documents[k].status = "success"
                    /\ StartsWithAt(documents[k].pdf_path, query_id \o <<"/">>, 1)
                    /\ \E w \in Range(uploads) :
                        /\ w.path = documents[k].pdf_path
                        /\ w.url = urls[k]
                        /\ w.query_id = query_id

\* one URL's upload failed, the other URL of the same request was stored
C1_Witness ==
    /\ ArchivingEnded
    /\ Len(urls) = 2
    /\ UploadFailed(urls[1])
    /\ documents[1].status = "error"
    /\ documents[2].status = "success"

BlankPrompt(data) ==
    \/ data.prompt = Absent
    \/ /\ data.prompt.t = "str"
       /\ \A k \in 1..Len(data.prompt.v) : data.prompt.v[k] \in {" ", "\t", "\n", "\r"}

\* C2: a /query request whose prompt is empty, whitespace only or missing is answered
\* 400 with the fixed message, and makes no external call: no inference, no fetch, no
\* upload.
C2_BlankPromptRejected ==
    ("prompt" \in DOMAIN req /\ BlankPrompt(req)) =>
        /\ pc = "idle"
        /\ resp = [status |-> 400, body |-> [error |-> "Please enter a prompt"]]
        /\ log = <<>>
        /\ documents = <<>>

\* a whitespace-only prompt was rejected
C2_Witness ==
    /\ "prompt" \in DOMAIN req
    /\ req.prompt = JsonStr(<<" ", "\t">>)
    /\ resp.status = 400

\* C3: a /query request with download_sources=false that is answered 200 returns an
\* empty documents list, with no query id, and fetched and uploaded nothing.
C3_NoDownloadNoDocuments ==
    ("prompt" \in DOMAIN req /\ req.download_sources = JsonBool(FALSE) /\ resp.status = 200) =>
        /\ resp.body.documents = <<>>
        /\ "query_id" \notin DOMAIN resp.body
        /\ \A c \in Range(log) : c.op = "generate_content"

\* download_sources=false, and the generated text holds URLs
C3_Witness ==
    /\ "prompt" \in DOMAIN req
    /\ req.download_sources = JsonBool(FALSE)
    /\ resp.status = 200
    /\ Len(CleanedUrls(resp.body.response)) = 2

\* the last upload made to path, as a sequence of at most one element
LastUploadTo(path) ==
    LET ks == {k \in 1..Len(uploads) : uploads[k].path = path}
    IN  IF ks = {} THEN <<>> ELSE <<uploads[Max(ks)]>>

\* C4 as stated: when the store answers, GET /document/<path> is 404 for a path never
\* written, and for a written path returns the bytes and the content type last
\* uploaded to it.
C4_RoundTripAsUploaded ==
    get_resp.status \in {200, 404} =>
        LET w == LastUploadTo(get_resp.path)
        IN  IF w = <<>> THEN get_resp.status = 404
            ELSE /\ get_resp.status = 200
                 /\ get_resp.content = w[1].content
                 /\ get_resp.mimetype = w[1].content_type

\* C4, amended: the content type returned is the one uploaded when that is not empty,
\* and application/octet-stream when the blob was uploaded with an empty content type.
C4_RoundTripOrDefault ==
    get_resp.status \in {200, 404} =>
        LET w == LastUploadTo(get_resp.path)
        IN  IF w = <<>> THEN get_resp.status = 404
            ELSE /\ get_resp.status = 200
                 /\ get_resp.content = w[1].content
                 /\ get_resp.mimetype =
                        IF w[1].content_type = <<>> THEN OCTET_STREAM ELSE w[1].content_type

\* a blob archived from a response with no Content-Type header was served
C4_Witness ==
    /\ get_resp.status = 200
    /\ LastUploadTo(get_resp.path) # <<>>
    /\ LastUploadTo(get_resp.path)[1].content_type = <<>>
    /\ get_resp.content = <<9>>

\* C5: every string extract_urls returns begins with http:// or https://, ends in none
\* of . , ; : ! ? ), is longer than 10 characters, and is returned once.
C5_ExtractedUrlsWellFormed ==
    epc = "output" =>
        \A k \in 1..Len(found) :
            /\ StartsWithAt(found[k], <<"h", "t", "t", "p", ":", "/", "/">>, 1)
               \/ StartsWithAt(found[k], <<"h", "t", "t", "p", "s", ":", "/", "/">>, 1)
            /\ found[k][Len(found[k])] \notin {".", ",", ";", ":", "!", "?", ")"}
            /\ Len(found[k]) > 10
            /\ \A j \in 1..Len(found) : j # k => found[j] # found[k]

\* the text holds the same URL twice and it was returned once
C5_Witness ==
    /\ epc = "output"
    /\ Len(found) = 1
    /\ Len(CleanedUrls(text)) = 2

\* the matches of url_pattern in the text, trailing punctuation stripped
StrippedMatches == {RStrip(m, TrailingPunct) : m \in Range(FindAll(text))}

\* C6 as stated: two uploads to the same blob path are uploads for the same query id
\* and the same URL.
C6_PathUniquePerQueryAndUrl ==
    \A a, b \in 1..Len(uploads) :
        uploads[a].path = uploads[b].path =>
            /\ uploads[a].query_id = uploads[b].query_id
            /\ uploads[a].url = uploads[b].url

\* the last document of the list, the fetch that produced it, and the blob stored for it
LastDoc == documents[Len(documents)]
LastGet == Gets[Len(documents)]
LastType == content_type_of(LastGet.outcome)
LastBlob == BlobAt(LastDoc.pdf_path)
LastStored == Len(documents) > 0 /\ Len(Gets) = Len(documents) /\ LastDoc.status = "success"

StoredAsPdf(ext) ==
    /\ ext = <<"p", "d", "f">>
    /\ LastBlob.content_type = APPLICATION_PDF

StoredRaw == LastBlob.content = LastGet.outcome.content

\* the content type was rendered: the PDF is stored, or after a failed rendering the
\* raw HTML with the note
StoredRendered ==
    \/ /\ LastBlob.content = PDF_BYTES
       /\ LastBlob.content_type = APPLICATION_PDF
       /\ EndsWith(LastDoc.filename, <<".", "p", "d", "f">>)
    \/ /\ StoredRaw
       /\ LastBlob.content_type = TEXT_HTML
       /\ EndsWith(LastDoc.filename, <<".", "h", "t", "m", "l">>)
       /\ "note" \in DOMAIN LastDoc

\* stored as it is, under its own content type, the extension the text after the last
\* "/" of the content type, or bin when it has no "/"
StoredAsIs ==
    /\ StoredRaw
    /\ "note" \notin DOMAIN LastDoc
    /\ LastBlob.content_type = LastType
    /\ LET slash == RFindChar(LastType, {"/"})
           ext == IF slash = 0 THEN <<"b", "i", "n">>
                  ELSE SubSeq(LastType, slash + 1, Len(LastType))
       IN  /\ LastDoc.filename = base_filename(LastDoc.url) \o <<".">> \o ext
           /\ LastDoc.pdf_path = blob_path(query_id, LastDoc.url, ext)

\* C7 as stated: application/pdf is stored raw as .pdf; text/* is rendered; every
\* other content type is stored as it is.
C7_ThreeWayByMimeType ==
    LastStored =>
        IF LastType = APPLICATION_PDF
        THEN StoredRaw /\ StoredAsPdf(<<"p", "d", "f">>)
                       /\ EndsWith(LastDoc.filename, <<".", "p", "d", "f">>)
        ELSE IF StartsWithAt(LastType, <<"t", "e", "x", "t", "/">>, 1)
        THEN StoredRendered
        ELSE StoredAsIs

\* C7, amended: application/pdf is stored raw as .pdf; a content type that contains
\* "html" or "text" anywhere (text/html, text/plain, application/xhtml+xml) is
\* rendered; every other content type is stored as it is.
C7_ThreeWayBySubstring ==
    LastStored =>
        IF LastType = APPLICATION_PDF
        THEN StoredRaw /\ StoredAsPdf(<<"p", "d", "f">>)
                       /\ EndsWith(LastDoc.filename, <<".", "p", "d", "f">>)
        ELSE IF Contains(LastType, <<"h", "t", "m", "l">>)
                \/ Contains(LastType, <<"t", "e", "x", "t">>)
        THEN StoredRendered
        ELSE StoredAsIs

\* an application/xhtml+xml response was rendered and stored as a PDF
C7_Witness ==
    /\ LastStored
    /\ LastType = APPLICATION_XHTML
    /\ LastBlob.content = PDF_BYTES

\* the record of the k-th URL is an error record with a message, nothing was uploaded
\* for it, and the loop went on
RecordedAsError(k) ==
    /\ documents[k].status = "error"
    /\ documents[k].error # ""
    /\ ~UploadTried(documents[k].url)
    /\ (pc = "archiving" \/ resp.status = 200)

C9_EveryUrlOnceThenReturn ==
    /\ \A k \in 1..Len(log) : (log[k].op = "generate_content") <=> (k = 1)
    /\ \A k \in 1..Len(log) :
        IsUpload(log[k]) => (k > 1 /\ IsGet(log[k - 1]) /\ log[k - 1].url = log[k].url)
    /\ \A a, b \in 1..Len(urls) : a # b => urls[a] # urls[b]
    /\ pc = "archiving" =>
        /\ resp.status = 0
        /\ FetchedUrls = SubSeq(urls, 1, i - 1)
        /\ Len(documents) = i - 1
    /\ ArchivingEnded =>
        /\ FetchedUrls = urls
        /\ Len(documents) = Len(urls)

\* a request whose first fetch failed fetched its second URL and ended
C9_Witness ==
    /\ ArchivingEnded
    /\ Len(urls) = 2
    /\ Gets[1].outcome.kind = "raise"
    /\ Len(Gets) = 2
    /\ resp.status = 200

\* C10 as stated: every match whose stripped form has 10 or more characters is
\* returned.
C10_KeepsTenOrMore ==
    epc = "output" =>
        \A u \in StrippedMatches : Len(u) >= 10 => u \in Range(found)

\* C10, amended: a match is discarded only when its stripped form has 10 characters
\* or fewer: every match whose stripped form has 11 or more characters is returned,
\* and nothing else is.
C10_KeepsElevenOrMore ==
    epc = "output" =>
        Range(found) = {u \in StrippedMatches : Len(u) >= 11}

\* a match of exactly 10 characters was discarded, one of exactly 11 was returned
C10_Witness ==
    /\ epc = "output"
    /\ \E u \in StrippedMatches : Len(u) = 10 /\ u \notin Range(found)
    /\ \E u \in StrippedMatches : Len(u) = 11 /\ u \in Range(found)


====
